---- MODULE Spec2Model ----
(***************************************************************************)
(* Adaptive Hybrid Download Controller of telegram-manager.                *)
(*                                                                         *)
(* The module models                                                       *)
(*   - compute_profile (v2.6) together with the stored refresh-interval    *)
(*     setting it reads (specification SpecProfile);                       *)
(*   - DownloadController (v2.6): worker threads running _download_one,    *)
(*     the stream engines _telethon_download/_cb and _simulated, the       *)
(*     aria2 hand-off, pause()/resume()/cancel(), the throttled            *)
(*     checkpoint save and process restarts (specifications Spec,          *)
(*     SpecDispatch and SpecE2E).                                          *)
(*                                                                         *)
(* Byte counts are scaled: one unit stands for one block of bytes, the     *)
(* arithmetic of the code is kept as it is.                                *)
(***************************************************************************)
EXTENDS Integers, FiniteSets, Sequences, TLC

(* ----------------------------- bounds ---------------------------------- *)
\* number of item slots; a batch uses a subset of them
NItems == 3
\* largest item size drawn for the general batches
MaxSize == 2
\* number of controller constructions (process starts) in a behaviour
MaxSessions == 2
\* number of history records appended in a behaviour
MaxAppends == 302
\* number of calls of restore_backup_flow in a behaviour
MaxRestores == 5
\* number of times the clock is advanced in a behaviour
MaxClockSteps == 2

(* ------------------------- program constants --------------------------- *)
\* STATE_SAVE_INTERVAL = 3.0 (seconds)
STATE_SAVE_INTERVAL == 3

\* if lock["attempts"] >= 3
LOCKOUT_ATTEMPTS == 3
\* lock["blocked_until"] = now_ts + 24 * 3600
LOCKOUT_SECONDS == 24 * 3600
\* if total >= 40000: break
PROBE_LIMIT == 40000
\* r.iter_content(4096)
PROBE_CHUNK == 4096
\* hist[-300:] in append_history of v2.5 and v2.6
HISTORY_KEEP == 300
\* h[-200:] in append_history of v2
HISTORY_KEEP_V2 == 200

Items == 1..NItems

Min(a, b) == IF a <= b THEN a ELSE b
Max(a, b) == IF a >= b THEN a ELSE b

VARIABLES
  \* ---- profile computer -------------------------------------------------
  bps,            \* probe result: [known |-> FALSE] is None, else bytes/second
  battery_ok,     \* power state handed to compute_profile
  cfg_refresh,    \* cfg["refresh_interval"], in half seconds
  p_out,          \* profile returned by the latest call ([set |-> FALSE] before)
  p_prev,         \* profile returned by the call before it
  \* ---- batch and configuration -------------------------------------------
  batch,          \* the items handed to the controller
  size,           \* item["size"] (0 when the catalog does not know it)
  real,           \* bytes the transport really delivers for the item
  direct_url,     \* item["direct_url"] present
  ARIA_ENABLED,   \* aria2c found and enabled in cfg
  ARIA_MIN_BYTES, \* cfg["aria2_threshold_bytes"]
  telethon_ok,    \* telethon_available and TELETHON_CLIENT is not None
  profile,        \* self.profile: chunk_size, concurrency
  \* ---- controller ----------------------------------------------------------
  pause_set,      \* self._pause
  cancel_set,     \* self._cancel
  lock,           \* self._lock: 0 free, else the worker holding it
  downloaded,     \* self.downloaded
  state,          \* self.state, per item: [has, done, total]
  since_save,     \* time.time() - self.last_save, capped at the interval
  \* ---- outside the process -------------------------------------------------
  disk,           \* DOWNLOAD_STATE file, same shape as state
  disk_kind,      \* what a read of that file meets: missing, valid, unreadable, torn
  file,           \* destination file per item: [exists, len]
  proc,           \* external aria2c process per item
  session,        \* number of the running process
  \* ---- worker threads (one per item) --------------------------------------
  pc,             \* position of the worker
  done,           \* local done of _simulated
  received,       \* cumulative bytes reported by the transport to _cb
  declared,       \* total argument of the pending _cb call
  ended,          \* the batch runner: "no", or the outcome of its final save
  \* ---- observers -------------------------------------------------------------
  route,          \* engines _download_one invoked for the item
  since_pause,    \* chunks the worker added since pause was set
  in_chunk,       \* worker had a chunk in progress when pause was set
  fresh,          \* session began with empty checkpoint and no finished file
  base,           \* done value of each item in the checkpoint at session start
  hist,           \* HISTORY_FILE: the sequence of history records
  probe,          \* the call of measure_speed_sample: position, locals, result
  rst             \* owner record, lockout and clock of restore_backup_flow (v2)

profVars == <<bps, battery_ok, cfg_refresh, p_out, p_prev>>
confVars == <<batch, size, real, direct_url, ARIA_ENABLED, ARIA_MIN_BYTES, profile>>
ctlVars  == <<pause_set, cancel_set, lock, downloaded, state, since_save>>
envVars  == <<disk, file, proc, session, telethon_ok>>
wrkVars  == <<pc, done, received, declared>>
obsVars  == <<route, since_pause, in_chunk, fresh>>
runVars  == <<ended, base, hist, probe, rst>>
vars == <<profVars, confVars, ctlVars, envVars, disk_kind, wrkVars, obsVars, runVars>>

(***************************************************************************)
(* Profile computer                                                        *)
(***************************************************************************)
NoSample == [known |-> FALSE, v |-> 0]
\* throughputs around every threshold of the table, in bytes per second
BpsValues == {0, 1, 499999, 500000, 1999999, 2000000, 9999999, 10000000, 15000000}
BpsInputs == {NoSample} \cup [known : {TRUE}, v : BpsValues]
\* what the settings menu may be given, in half seconds
RefreshInputs == {0, 6, 10, 40}

NoProfile == [set |-> FALSE, chunk_size |-> 0, concurrency |-> 0,
              fast_mode |-> FALSE, refresh_interval |-> 0]

\* "if bps:" is true for a number other than 0 (None and 0.0 are both falsy)
Truthy(b) == b.known /\ b.v # 0

\* mbps = bps / 1e6 compared with 10, 2 and 0.5
MbpsAtLeast10(b)   == b.v >= 10 * 1000000
MbpsAtLeast2(b)    == b.v >= 2 * 1000000
MbpsAtLeastHalf(b) == 2 * b.v >= 1000000

TableChunk(b) ==
  IF ~Truthy(b) THEN 256000
  ELSE IF MbpsAtLeast10(b) THEN 1000000
  ELSE IF MbpsAtLeast2(b) THEN 512000
  ELSE IF MbpsAtLeastHalf(b) THEN 256000
  ELSE 128000

TableConcurrency(b) ==
  IF ~Truthy(b) THEN 1
  ELSE IF MbpsAtLeast10(b) THEN 4
  ELSE IF MbpsAtLeast2(b) THEN 2
  ELSE 1

TableFastMode(b) == Truthy(b) /\ MbpsAtLeast2(b)

compute_profile(b, ok, ri) ==
  [set |-> TRUE,
   chunk_size |-> IF ok THEN TableChunk(b) ELSE Max(64000, TableChunk(b) \div 2),
   concurrency |-> IF ok THEN TableConcurrency(b) ELSE 1,
   fast_mode |-> TableFastMode(b),
   refresh_interval |-> ri]

InitProfile ==
  /\ bps \in BpsInputs
  /\ battery_ok \in BOOLEAN
  /\ cfg_refresh = 6
  /\ p_out = NoProfile
  /\ p_prev = NoProfile

\* a call of compute_profile(bps, battery_ok); cfg is read, nothing is written
ComputeProfile ==
  /\ p_out' = compute_profile(bps, battery_ok, cfg_refresh)
  /\ p_prev' = p_out
  /\ UNCHANGED <<bps, battery_ok, cfg_refresh>>
  /\ UNCHANGED <<confVars, ctlVars, envVars, wrkVars, obsVars, runVars, disk_kind>>

\* the settings menu stores a new refresh interval, clamped to 0.5 .. 10 s
SetRefreshInterval(v) ==
  /\ cfg_refresh' = Max(1, Min(20, v))
  /\ UNCHANGED <<bps, battery_ok, p_out, p_prev>>
  /\ UNCHANGED <<confVars, ctlVars, envVars, wrkVars, obsVars, runVars, disk_kind>>

(***************************************************************************)
(* measure_speed_sample                                                    *)
(***************************************************************************)
\* the result None
NoRate == [known |-> FALSE, num |-> 0, den |-> 1]
\* the result total / dt, kept as the pair of its operands
Rate(n, d) == [known |-> TRUE, num |-> n, den |-> d]

\* no call is running
ProbeIdle == [pc |-> "idle", requests_ok |-> FALSE, left |-> 0, total |-> 0,
              failed |-> FALSE, dt |-> 0, result |-> NoRate]

\* lengths of the response body, in bytes: empty, a small icon, just below
\* and at the limit, beyond the limit
BodySizes == {0, 6144, 38912, 40960, 49152}
\* lengths of the chunks iter_content(4096) yields while more is left
ChunkLens == {PROBE_CHUNK \div 2, PROBE_CHUNK}
\* time.time() - t0, in clock units: the clock may stand still or step back
Elapsed == {-1, 0, 1, 2}

\* measure_speed_sample is called: if not requests_ok: return None
ProbeCall ==
  /\ probe.pc = "idle"
  /\ \E ok \in BOOLEAN :
       probe' = [ProbeIdle EXCEPT !.requests_ok = ok,
                                  !.pc = IF ok THEN "get" ELSE "done"]
  /\ UNCHANGED <<profVars, confVars, ctlVars, envVars, disk_kind, wrkVars, obsVars,
                 ended, base, hist, rst>>

\* faulty variant of ProbeGet: a failure of the request is not caught
ProbeGetUncaught ==
  /\ probe.pc = "get"
  /\ \/ probe' = [probe EXCEPT !.pc = "raised", !.failed = TRUE]
     \/ \E b \in BodySizes :
          probe' = [probe EXCEPT !.pc = "read", !.left = b, !.total = 0]
  /\ UNCHANGED <<profVars, confVars, ctlVars, envVars, disk_kind, wrkVars, obsVars,
                 ended, base, hist, rst>>

\* requests.get(url, stream=True, timeout=timeout): it raises (no connection,
\* timeout), which ends in "except Exception: return None", or it answers
\* with a body
ProbeGet ==
  /\ probe.pc = "get"
  /\ \/ probe' = [probe EXCEPT !.pc = "done", !.failed = TRUE]
     \/ \E b \in BodySizes :
          probe' = [probe EXCEPT !.pc = "read", !.left = b, !.total = 0]
  /\ UNCHANGED <<profVars, confVars, ctlVars, envVars, disk_kind, wrkVars, obsVars,
                 ended, base, hist, rst>>

\* for chunk in r.iter_content(4096): total += len(chunk);
\* if total >= 40000: break
ProbeChunk ==
  /\ probe.pc = "read"
  /\ probe.left > 0
  /\ \E n \in ChunkLens \cup {Min(probe.left, PROBE_CHUNK)} :
       /\ n <= probe.left
       /\ probe' = [probe EXCEPT !.total = @ + n, !.left = @ - n,
                                 !.pc = IF probe.total + n >= PROBE_LIMIT
                                        THEN "timing" ELSE "read"]
  /\ UNCHANGED <<profVars, confVars, ctlVars, envVars, disk_kind, wrkVars, obsVars,
                 ended, base, hist, rst>>

\* the connection breaks or times out while the body is read
ProbeReadError ==
  /\ probe.pc = "read"
  /\ probe' = [probe EXCEPT !.pc = "done", !.failed = TRUE]
  /\ UNCHANGED <<profVars, confVars, ctlVars, envVars, disk_kind, wrkVars, obsVars,
                 ended, base, hist, rst>>

\* the body is exhausted: the for loop ends
ProbeEnd ==
  /\ probe.pc = "read"
  /\ probe.left = 0
  /\ probe' = [probe EXCEPT !.pc = "timing"]
  /\ UNCHANGED <<profVars, confVars, ctlVars, envVars, disk_kind, wrkVars, obsVars,
                 ended, base, hist, rst>>

\* dt = time.time() - t0; return (total / dt) if dt > 0 else None
ProbeTime ==
  /\ probe.pc = "timing"
  /\ \E d \in Elapsed :
       probe' = [probe EXCEPT !.pc = "done", !.dt = d,
                              !.result = IF d > 0 THEN Rate(probe.total, d) ELSE NoRate]
  /\ UNCHANGED <<profVars, confVars, ctlVars, envVars, disk_kind, wrkVars, obsVars,
                 ended, base, hist, rst>>

\* the caller took the result: the next call can begin
ProbeReturn ==
  /\ probe.pc = "done"
  /\ probe' = ProbeIdle
  /\ UNCHANGED <<profVars, confVars, ctlVars, envVars, disk_kind, wrkVars, obsVars,
                 ended, base, hist, rst>>

(***************************************************************************)
(* restore_backup_flow of v2: owner-protected restore with lockout         *)
(***************************************************************************)
\* cfg after the defaults were set: no owner, lockout {attempts 0,
\* blocked_until 0}; nothing was asked, nothing was restored
RestoreIdle == [owner |-> FALSE, stored |-> FALSE, attempts |-> 0,
                blocked_until |-> 0, now |-> 1, asked |-> 0, restored |-> 0,
                calls |-> 0, ticks |-> 0, last |-> "none"]

\* seconds the clock is advanced by between two calls
ClockSteps == {1, LOCKOUT_SECONDS - 1, LOCKOUT_SECONDS}

\* what the user does at "Select number or q"
Selections == {"q", "invalid", "backup"}
\* what FERNET.decrypt(stored_code_enc) followed by dec.decode() gives: the
\* stored code; the empty string (SimpleFernet.decrypt swallows every
\* exception and returns b""); some other text; or decode() raises
DecryptResults == {"code", "empty", "other", "raises"}
\* what the user types at the getpass prompt: the stored code, another
\* string, or nothing
TypedCodes == {"code", "wrong", "empty"}

\* dec.decode() != code
CodeDiffers(dec, typed) ==
  ~((dec = "code" /\ typed = "code") \/ (dec = "empty" /\ typed = "empty"))

\* initial setup before the menu: the owner record is created, and an owner
\* code is stored or not
OwnerSetup ==
  /\ ~rst.owner
  /\ \E s \in BOOLEAN : rst' = [rst EXCEPT !.owner = TRUE, !.stored = s]
  /\ UNCHANGED <<profVars, confVars, ctlVars, envVars, disk_kind, wrkVars, obsVars,
                 ended, base, hist, probe>>

\* time passes
ClockAdvance ==
  /\ rst.ticks < MaxClockSteps
  /\ \E d \in ClockSteps :
       rst' = [rst EXCEPT !.now = @ + d, !.ticks = @ + 1]
  /\ UNCHANGED <<profVars, confVars, ctlVars, envVars, disk_kind, wrkVars, obsVars,
                 ended, base, hist, probe>>

\* faulty variant of Locked: the lockout is not consulted
LockedNever == FALSE

\* lock.get("blocked_until", 0) > now_ts
Locked == rst.blocked_until > rst.now

\* lock after a mismatch: attempts + 1, and blocked_until = now + 24 h once
\* attempts >= 3
Mismatch(r) ==
  [r EXCEPT !.attempts = @ + 1,
            !.blocked_until = IF r.attempts + 1 >= LOCKOUT_ATTEMPTS
                              THEN r.now + LOCKOUT_SECONDS ELSE @]

\* a call of restore_backup_flow from the menu
RestoreCall ==
  /\ rst.owner
  /\ rst.calls < MaxRestores
  /\ \E has_backups \in BOOLEAN, sel \in Selections,
        dec \in DecryptResults, typed \in TypedCodes :
       LET r == [rst EXCEPT !.calls = @ + 1] IN
       IF ~has_backups THEN rst' = [r EXCEPT !.last = "no_backups"]
       ELSE IF sel # "backup" THEN rst' = [r EXCEPT !.last = "no_selection"]
       ELSE IF Locked THEN rst' = [r EXCEPT !.last = "locked"]
       ELSE LET a == [r EXCEPT !.asked = @ + 1] IN
            IF ~rst.stored
            THEN rst' = [a EXCEPT !.restored = @ + 1, !.last = "restored_no_code"]
            ELSE IF dec = "raises"
            THEN rst' = [a EXCEPT !.last = "verify_failed"]
            ELSE IF CodeDiffers(dec, typed)
            THEN rst' = [Mismatch(a) EXCEPT !.last = "mismatch"]
            ELSE rst' = [a EXCEPT !.restored = @ + 1,
                                  !.last = IF dec = "code" THEN "restored"
                                           ELSE "restored_undecrypted"]
  /\ UNCHANGED <<profVars, confVars, ctlVars, envVars, disk_kind, wrkVars, obsVars,
                 ended, base, hist, probe>>

(***************************************************************************)
(* Download controller                                                     *)
(***************************************************************************)
NoEntry == [has |-> FALSE, done |-> 0, total |-> 0]
NoFile  == [exists |-> FALSE, len |-> 0]
Entry(d, t) == [has |-> TRUE, done |-> d, total |-> t]

Finished == {"ret_true", "ret_false"}
\* worker positions at which a chunk is being transferred
ChunkPcs == {"sim_chunk", "tl_xfer", "tl_locked"}

\* the controller is paused and not cancelled: _wait_if_paused keeps sleeping
Blocked == pause_set /\ ~cancel_set

\* self.state.get(chat, {}).get(msg, {}).get("done", 0)
PrevDone(i) == IF state[i].has THEN state[i].done ELSE 0

\* save_state(s): the file holds s afterwards, or is untouched when the write
\* raises (the exception is swallowed)
save_state(s, ok) == IF ok THEN s ELSE disk

\* the checkpoint file after a call of save_state(s) that ran to its end
\* the mapping with no entry
NoState == [i \in Items |-> NoEntry]

\* how write_text can end: written; refused when the file is opened (the file
\* is untouched); failed after the file was opened and emptied (disk full)
WriteResults == {"ok", "denied", "full"}

StoreWriteAs(s, r) ==
  /\ disk' = IF r = "full" THEN NoState ELSE save_state(s, r = "ok")
  /\ disk_kind' = IF r = "ok" THEN "valid" ELSE IF r = "full" THEN "cut" ELSE disk_kind

StoreWrite(s) == \E r \in WriteResults : StoreWriteAs(s, r)

\* faulty variant of load_state: the content is taken whatever the read met
load_state_unchecked == disk

\* load_state(): the mapping in the file, or {} when the file is missing,
\* cannot be read or does not parse
load_state == IF disk_kind = "valid" THEN disk ELSE NoState

\* h[-n:]
LastN(h, n) == IF Len(h) > n THEN SubSeq(h, Len(h) - n + 1, Len(h)) ELSE h

\* append_history of v2.5 and v2.6: the log after the record e was appended
append_history(h, e) == LastN(Append(h, e), HISTORY_KEEP)

\* append_history of v2
append_history_v2(h, e) == LastN(Append(h, e), HISTORY_KEEP_V2)

\* time.time() - self.last_save >= STATE_SAVE_INTERVAL
SaveDue == since_save >= STATE_SAVE_INTERVAL

\* _save_progress() on the mapping s
save_progress(s) ==
  IF SaveDue
  THEN /\ StoreWrite(s)
       /\ since_save' = 0
  ELSE UNCHANGED <<disk, disk_kind, since_save>>

\* the observers of pause: chunks added while the controller is blocked
NoteChunk(i) ==
  since_pause' = IF Blocked THEN [since_pause EXCEPT ![i] = @ + 1] ELSE since_pause

\* DownloadController.__init__
Construct ==
  /\ pause_set' = FALSE
  /\ cancel_set' = FALSE
  /\ lock' = 0
  /\ downloaded' = 0
  /\ since_save' = 0
  /\ state' = load_state


\* faulty variant of UseHandoff: the threshold is exclusive
UseHandoffStrict(i) == size[i] > ARIA_MIN_BYTES /\ ARIA_ENABLED /\ direct_url[i]

\* size >= ARIA_MIN_BYTES and ARIA_ENABLED, then: if direct_url
UseHandoff(i) == size[i] >= ARIA_MIN_BYTES /\ ARIA_ENABLED /\ direct_url[i]

\* _aria2_hand_off: False when disabled, True when Popen started the process,
\* False when Popen raised
aria2_hand_off(spawned) == ARIA_ENABLED /\ spawned

(* ------------------------------ workers -------------------------------- *)
\* the items a worker thread is processing
InFlight == {j \in batch : pc[j] \notin Finished \cup {"idle"}}

\* faulty variant of Start: an item is started whatever the number in flight
StartUnbounded ==
  \E i \in batch :
  /\ pc[i] = "idle"
  /\ pc' = [pc EXCEPT ![i] = "dispatch"]
  /\ UNCHANGED <<profVars, runVars, disk_kind, confVars, ctlVars, envVars, done, received, declared, obsVars>>

\* the executor hands item i to a free worker thread
Start ==
  \E i \in batch :
  /\ pc[i] = "idle"
  /\ Cardinality({j \in batch : pc[j] \notin Finished \cup {"idle"}}) < profile.concurrency
  /\ pc' = [pc EXCEPT ![i] = "dispatch"]
  /\ UNCHANGED <<profVars, runVars, disk_kind, confVars, ctlVars, envVars, done, received, declared, obsVars>>

\* faulty variant of Dispatch: the item is credited whatever _aria2_hand_off
\* returned
DispatchCreditAlways ==
  \E i \in batch :
  /\ pc[i] = "dispatch"
  /\ IF UseHandoff(i)
     THEN \E spawned \in BOOLEAN :
            /\ route' = [route EXCEPT ![i] = @ \cup {"handoff"}]
            /\ proc' = IF aria2_hand_off(spawned)
                       THEN [proc EXCEPT ![i] = "running"] ELSE proc
            /\ pc' = [pc EXCEPT ![i] = "credit"]
     ELSE /\ pc' = [pc EXCEPT ![i] = "nohandoff"]
          /\ UNCHANGED <<proc, route>>
  /\ UNCHANGED <<profVars, runVars, disk_kind, confVars, ctlVars, disk, file, session, telethon_ok,
                 done, received, declared, since_pause, in_chunk, fresh>>

\* _download_one up to the result of the hand-off
Dispatch ==
  \E i \in batch :
  /\ pc[i] = "dispatch"
  /\ IF UseHandoff(i)
     THEN \E spawned \in BOOLEAN :
            /\ route' = [route EXCEPT ![i] = @ \cup {"handoff"}]
            /\ IF aria2_hand_off(spawned)
               THEN /\ proc' = [proc EXCEPT ![i] = "running"]
                    /\ pc' = [pc EXCEPT ![i] = "credit"]
               ELSE /\ pc' = [pc EXCEPT ![i] = "nohandoff"]
                    /\ UNCHANGED proc
     ELSE /\ pc' = [pc EXCEPT ![i] = "nohandoff"]
          /\ UNCHANGED <<proc, route>>
  /\ UNCHANGED <<profVars, runVars, disk_kind, confVars, ctlVars, disk, file, session, telethon_ok,
                 done, received, declared, since_pause, in_chunk, fresh>>


\* faulty variant of HandoffCredit: the credit waits for the external process and is
\* given only when it ended well
HandoffCreditVerified ==
  \E i \in batch :
  /\ pc[i] = "credit"
  /\ lock = 0
  /\ proc[i] # "running"
  /\ IF proc[i] = "ok"
     THEN /\ downloaded' = downloaded + size[i]
          /\ state' = [state EXCEPT ![i] = Entry(size[i], size[i])]
     ELSE UNCHANGED <<downloaded, state>>
  /\ pc' = [pc EXCEPT ![i] = "ho_after"]
  /\ UNCHANGED <<profVars, runVars, disk_kind, confVars, pause_set, cancel_set, lock, since_save,
                 envVars, done, received, declared, obsVars>>

\* with self._lock: self.downloaded += size; self.state[chat][msg] = {...}
HandoffCredit ==
  \E i \in batch :
  /\ pc[i] = "credit"
  /\ lock = 0
  /\ downloaded' = downloaded + size[i]
  /\ state' = [state EXCEPT ![i] = Entry(size[i], size[i])]
  /\ pc' = [pc EXCEPT ![i] = "ho_after"]
  /\ UNCHANGED <<profVars, runVars, disk_kind, confVars, pause_set, cancel_set, lock, since_save,
                 envVars, done, received, declared, obsVars>>

\* after the credit: throttled save, the item counts as done
HandoffFinish ==
  \E i \in batch :
  /\ pc[i] = "ho_after"
  /\ save_progress(state)
  /\ pc' = [pc EXCEPT ![i] = "ret_true"]
  /\ UNCHANGED <<profVars, runVars, confVars, pause_set, cancel_set, lock, downloaded, state,
                 file, proc, session, telethon_ok, done, received, declared, obsVars>>

\* no hand-off (not offered, or not started): the item goes to the stream engine
StreamDispatch ==
  \E i \in batch :
  /\ pc[i] = "nohandoff"
  /\ route' = [route EXCEPT ![i] = @ \cup {"stream"}]
  /\ pc' = [pc EXCEPT ![i] = "telethon_download"]
  /\ UNCHANGED <<profVars, runVars, disk_kind, confVars, ctlVars, envVars, done, received, declared,
                 since_pause, in_chunk, fresh>>

\* _telethon_download: falls to _simulated without a client, else starts
\* download_media
TelethonDownload ==
  \E i \in batch :
  /\ pc[i] = "telethon_download"
  /\ IF ~telethon_ok
     THEN pc' = [pc EXCEPT ![i] = "sim_start"]
     ELSE pc' = [pc EXCEPT ![i] = "tl_xfer"]
  /\ received' = [received EXCEPT ![i] = 0]
  /\ UNCHANGED <<profVars, runVars, disk_kind, confVars, ctlVars, envVars, done, declared, obsVars>>

\* the transport got a further part and calls _cb(received, total), which
\* takes the lock
CbEnter ==
  \E i \in batch :
  /\ pc[i] = "tl_xfer"
  /\ received[i] < real[i]
  /\ lock = 0
  /\ \E r \in (received[i] + 1)..real[i], t \in {0, real[i]} :
       /\ received' = [received EXCEPT ![i] = r]
       /\ declared' = [declared EXCEPT ![i] = t]
  /\ lock' = i
  /\ pc' = [pc EXCEPT ![i] = "tl_locked"]
  /\ UNCHANGED <<profVars, runVars, disk_kind, confVars, pause_set, cancel_set, downloaded, state,
                 since_save, envVars, done, obsVars>>

\* total or assumed_size
TotalOr(t, assumed) == IF t # 0 THEN t ELSE assumed

\* the entry _cb writes
CbEntry(i) == Entry(received[i], TotalOr(declared[i], size[i]))

\* what _cb adds to self.downloaded
CbAdd(i) == Max(0, received[i] - PrevDone(i))

\* faulty variant of CbBody: the pause wait begins inside the locked block
CbBodyHolding ==
  \E i \in batch :
  /\ pc[i] = "tl_locked"
  /\ lock = i
  /\ downloaded' = downloaded + CbAdd(i)
  /\ state' = [state EXCEPT ![i] = CbEntry(i)]
  /\ save_progress(state')
  /\ UNCHANGED lock
  /\ NoteChunk(i)
  /\ declared' = [declared EXCEPT ![i] = 0]
  /\ pc' = [pc EXCEPT ![i] = "tl_wait"]
  /\ UNCHANGED <<profVars, runVars, confVars, pause_set, cancel_set, file, proc, session,
                 telethon_ok, done, received, route, in_chunk, fresh>>

\* body of _cb under the lock
CbBody ==
  \E i \in batch :
  /\ pc[i] = "tl_locked"
  /\ lock = i
  /\ downloaded' = downloaded + CbAdd(i)
  /\ state' = [state EXCEPT ![i] = CbEntry(i)]
  /\ save_progress(state')
  /\ lock' = 0
  /\ NoteChunk(i)
  /\ declared' = [declared EXCEPT ![i] = 0]
  /\ pc' = [pc EXCEPT ![i] = "tl_wait"]
  /\ UNCHANGED <<profVars, runVars, confVars, pause_set, cancel_set, file, proc, session,
                 telethon_ok, done, received, route, in_chunk, fresh>>

\* while self._pause.is_set() and not self._cancel.is_set(): sleep
CbWait ==
  \E i \in batch :
  /\ pc[i] = "tl_wait"
  /\ ~Blocked
  /\ pc' = [pc EXCEPT ![i] = "tl_xfer"]
  /\ UNCHANGED <<profVars, runVars, disk_kind, confVars, ctlVars, envVars, done, received, declared, obsVars>>

\* download_media returned: return outpath.exists()
TlFinish ==
  \E i \in batch :
  /\ pc[i] = "tl_xfer"
  /\ received[i] = real[i]
  /\ file' = [file EXCEPT ![i] = [exists |-> TRUE, len |-> real[i]]]
  /\ pc' = [pc EXCEPT ![i] = "ret_true"]
  /\ UNCHANGED <<profVars, runVars, disk_kind, confVars, ctlVars, disk, proc, session, telethon_ok,
                 done, received, declared, obsVars>>

\* faulty variant of TlError: after a transport error the engine starts the
\* transfer of the item again
TlErrorRetry ==
  \E i \in batch :
  /\ pc[i] = "tl_xfer"
  /\ file' = [file EXCEPT ![i] = [exists |-> TRUE, len |-> received[i]]]
  /\ pc' = [pc EXCEPT ![i] = "telethon_download"]
  /\ UNCHANGED <<profVars, runVars, disk_kind, confVars, ctlVars, disk, proc, session, telethon_ok,
                 done, received, declared, obsVars>>

\* the transport raised: except Exception: return False
TlError ==
  \E i \in batch :
  /\ pc[i] = "tl_xfer"
  /\ file' = [file EXCEPT ![i] = [exists |-> TRUE, len |-> received[i]]]
  /\ pc' = [pc EXCEPT ![i] = "ret_false"]
  /\ UNCHANGED <<profVars, runVars, disk_kind, confVars, ctlVars, disk, proc, session, telethon_ok,
                 done, received, declared, obsVars>>

\* _simulated: if outpath.exists() and st_size >= size: return True; done = 0
SimStart ==
  \E i \in batch :
  /\ pc[i] = "sim_start"
  /\ IF file[i].exists /\ file[i].len >= size[i]
     THEN pc' = [pc EXCEPT ![i] = "ret_true"]
     ELSE pc' = [pc EXCEPT ![i] = "sim_loop"]
  /\ done' = [done EXCEPT ![i] = 0]
  /\ UNCHANGED <<profVars, runVars, disk_kind, confVars, ctlVars, envVars, received, declared, obsVars>>

\* while done < size and not self._cancel.is_set()
SimLoop ==
  \E i \in batch :
  /\ pc[i] = "sim_loop"
  /\ IF done[i] < size[i] /\ ~cancel_set
     THEN pc' = [pc EXCEPT ![i] = "sim_wait"]
     ELSE pc' = [pc EXCEPT ![i] = "sim_exit"]
  /\ UNCHANGED <<profVars, runVars, disk_kind, confVars, ctlVars, envVars, done, received, declared, obsVars>>


\* faulty variant of SimWait: the loop does not wait while paused
SimWaitNoPause ==
  \E i \in batch :
  /\ pc[i] = "sim_wait"
  /\ pc' = [pc EXCEPT ![i] = "sim_chunk"]
  /\ UNCHANGED <<profVars, runVars, disk_kind, confVars, ctlVars, envVars, done, received, declared, obsVars>>

\* self._wait_if_paused()
SimWait ==
  \E i \in batch :
  /\ pc[i] = "sim_wait"
  /\ ~Blocked
  /\ pc' = [pc EXCEPT ![i] = "sim_chunk"]
  /\ UNCHANGED <<profVars, runVars, disk_kind, confVars, ctlVars, envVars, done, received, declared, obsVars>>


\* step = min(chunk_size, size - done)
Step(i) == Min(profile.chunk_size, size[i] - done[i])

\* faulty variant of SimChunk: the chunk is not added to the aggregate counter
SimChunkUncounted ==
  \E i \in batch :
  /\ pc[i] = "sim_chunk"
  /\ lock = 0
  /\ done' = [done EXCEPT ![i] = @ + Step(i)]
  /\ NoteChunk(i)
  /\ pc' = [pc EXCEPT ![i] = "sim_save"]
  /\ UNCHANGED <<profVars, runVars, disk_kind, confVars, ctlVars, envVars, received,
                 declared, route, in_chunk, fresh>>

\* the chunk: done += step; with self._lock: self.downloaded += step
SimChunk ==
  \E i \in batch :
  /\ pc[i] = "sim_chunk"
  /\ lock = 0
  /\ done' = [done EXCEPT ![i] = @ + Step(i)]
  /\ downloaded' = downloaded + Step(i)
  /\ NoteChunk(i)
  /\ pc' = [pc EXCEPT ![i] = "sim_save"]
  /\ UNCHANGED <<profVars, runVars, disk_kind, confVars, pause_set, cancel_set, lock, state, since_save,
                 envVars, received, declared, route, in_chunk, fresh>>

\* self._save_progress() at the end of the loop body, outside the lock: the
\* test of the elapsed time
SimSave ==
  \E i \in batch :
  /\ pc[i] = "sim_save"
  /\ pc' = [pc EXCEPT ![i] = IF SaveDue THEN "sim_write" ELSE "sim_loop"]
  /\ UNCHANGED <<profVars, runVars, disk_kind, confVars, ctlVars, envVars, done,
                 received, declared, obsVars>>

\* ... and, the test passed: save_state(self.state); self.last_save = now
SimWrite ==
  \E i \in batch :
  /\ pc[i] = "sim_write"
  /\ StoreWrite(state)
  /\ since_save' = 0
  /\ pc' = [pc EXCEPT ![i] = "sim_loop"]
  /\ UNCHANGED <<profVars, runVars, confVars, pause_set, cancel_set, lock, downloaded,
                 state, file, proc, session, telethon_ok, done, received, declared,
                 obsVars>>

\* f.truncate(size); return not self._cancel.is_set()
SimExit ==
  \E i \in batch :
  /\ pc[i] = "sim_exit"
  /\ file' = [file EXCEPT ![i] = [exists |-> TRUE, len |-> size[i]]]
  /\ pc' = [pc EXCEPT ![i] = IF cancel_set THEN "ret_false" ELSE "ret_true"]
  /\ UNCHANGED <<profVars, runVars, disk_kind, confVars, ctlVars, disk, proc, session, telethon_ok,
                 done, received, declared, obsVars>>

(* ---------------------------- control calls ---------------------------- *)
\* the two control flags of the controller
Flags == [pause |-> pause_set, cancel |-> cancel_set]

\* faulty variant of resume: both events are cleared
resume_all(f) == [pause |-> FALSE, cancel |-> FALSE]

\* self._pause.set()
pause(f) == [f EXCEPT !.pause = TRUE]
\* self._pause.clear()
resume(f) == [f EXCEPT !.pause = FALSE]
\* self._cancel.set()
cancel(f) == [f EXCEPT !.cancel = TRUE]

\* pause(): self._pause.set()
Pause ==
  /\ pause_set' = pause(Flags).pause
  /\ cancel_set' = pause(Flags).cancel
  /\ IF pause_set
     THEN UNCHANGED <<since_pause, in_chunk>>
     ELSE /\ since_pause' = [i \in Items |-> 0]
          /\ in_chunk' = [i \in Items |-> pc[i] \in ChunkPcs]
  /\ UNCHANGED <<profVars, runVars, disk_kind, confVars, lock, downloaded, state, since_save,
                 envVars, wrkVars, route, fresh>>

\* resume(): self._pause.clear()
Resume ==
  /\ pause_set' = resume(Flags).pause
  /\ cancel_set' = resume(Flags).cancel
  /\ since_pause' = [i \in Items |-> 0]
  /\ in_chunk' = [i \in Items |-> FALSE]
  /\ UNCHANGED <<profVars, runVars, disk_kind, confVars, lock, downloaded, state, since_save,
                 envVars, wrkVars, route, fresh>>

\* cancel(): self._cancel.set()
Cancel ==
  /\ pause_set' = cancel(Flags).pause
  /\ cancel_set' = cancel(Flags).cancel
  /\ since_pause' = [i \in Items |-> 0]
  /\ in_chunk' = [i \in Items |-> FALSE]
  /\ UNCHANGED <<profVars, runVars, disk_kind, confVars, lock, downloaded, state, since_save,
                 envVars, wrkVars, route, fresh>>

(* ------------------------------ environment ---------------------------- *)
\* d seconds pass
Tick(d) ==
  /\ since_save < STATE_SAVE_INTERVAL
  /\ since_save' = Min(since_save + d, STATE_SAVE_INTERVAL)
  /\ UNCHANGED <<profVars, runVars, disk_kind, confVars, pause_set, cancel_set, lock, downloaded, state,
                 envVars, wrkVars, obsVars>>

\* the detached aria2c process ends, with or without the file
ProcExit ==
  \E i \in batch :
  /\ proc[i] = "running"
  /\ \E r \in {"ok", "failed"} : proc' = [proc EXCEPT ![i] = r]
  /\ UNCHANGED <<profVars, runVars, disk_kind, confVars, ctlVars, disk, file, session, telethon_ok,
                 wrkVars, obsVars>>

\* faulty variant of BatchEnd: the final save goes through the throttle
BatchEndThrottled ==
  /\ ended = "no"
  /\ batch # {}
  /\ \A i \in batch : pc[i] \in Finished
  /\ IF SaveDue
     THEN \E r \in WriteResults :
            /\ StoreWriteAs(state, r)
            /\ ended' = IF r = "ok" THEN "saved" ELSE "save_failed"
     ELSE /\ UNCHANGED <<disk, disk_kind>>
          /\ ended' = "saved"
  /\ UNCHANGED <<profVars, confVars, ctlVars, file, proc, session, telethon_ok,
                 pc, done, received, declared, obsVars, base, hist, probe, rst>>

\* every worker of the batch has returned, by completion or after a cancel:
\* the final save of the checkpoint, whatever the time since the last save
BatchEnd ==
  /\ ended = "no"
  /\ batch # {}
  /\ \A i \in batch : pc[i] \in Finished
  /\ \E r \in WriteResults :
       /\ StoreWriteAs(state, r)
       /\ ended' = IF r = "ok" THEN "saved" ELSE "save_failed"
  /\ UNCHANGED <<profVars, confVars, ctlVars, file, proc, session, telethon_ok,
                 pc, done, received, declared, obsVars, base, hist, probe, rst>>

\* no finished destination file and no checkpoint entry for any item
FreshStart ==
  \A i \in batch : ~disk[i].has /\ ~(file[i].exists /\ file[i].len >= size[i])

\* the process ends (finished, or killed at any point) and the program is run
\* again on the same batch: a new controller is constructed
Restart ==
  /\ session < MaxSessions
  /\ session' = session + 1
  /\ Construct
  /\ telethon_ok' \in BOOLEAN
  /\ pc' = [i \in Items |-> "idle"]
  /\ done' = [i \in Items |-> 0]
  /\ received' = [i \in Items |-> 0]
  /\ declared' = [i \in Items |-> 0]
  /\ route' = [i \in Items |-> {}]
  /\ since_pause' = [i \in Items |-> 0]
  /\ in_chunk' = [i \in Items |-> FALSE]
  /\ fresh' = FreshStart
  /\ UNCHANGED <<profVars, disk_kind, confVars, disk, file, proc>>
  /\ ended' = "no"
  /\ base' = [i \in Items |-> IF load_state[i].has THEN load_state[i].done ELSE 0]
  /\ UNCHANGED <<hist, probe, rst>>

\* the process is killed while write_text of save_state is writing: the file
\* was opened for writing, which emptied it, and the text is not complete.
\* The program is run again: a new controller is constructed on that file.
KillInSave ==
  /\ session < MaxSessions
  /\ \E i \in batch : pc[i] = "sim_write" \/ (pc[i] = "tl_locked" /\ SaveDue)
  /\ disk' = NoState
  /\ disk_kind' = "torn"
  /\ session' = session + 1
  /\ pause_set' = FALSE
  /\ cancel_set' = FALSE
  /\ lock' = 0
  /\ downloaded' = 0
  /\ since_save' = 0
  /\ state' = NoState
  /\ telethon_ok' \in BOOLEAN
  /\ pc' = [i \in Items |-> "idle"]
  /\ done' = [i \in Items |-> 0]
  /\ received' = [i \in Items |-> 0]
  /\ declared' = [i \in Items |-> 0]
  /\ route' = [i \in Items |-> {}]
  /\ since_pause' = [i \in Items |-> 0]
  /\ in_chunk' = [i \in Items |-> FALSE]
  /\ fresh' = \A i \in batch : ~(file[i].exists /\ file[i].len >= size[i])
  /\ ended' = "no"
  /\ base' = [i \in Items |-> 0]
  /\ UNCHANGED <<profVars, confVars, file, proc, hist, probe, rst>>

(***************************************************************************)
(* download_with_telethon of v2: the media messages of one chat are        *)
(* downloaded one after the other; the checkpoint has one entry, of the     *)
(* chat (slot 1), and every progress report saves it                       *)
(***************************************************************************)
\* total_bytes = selection.get("size", 0)
total_bytes == size[1] + size[2]

\* async for msg in iter_messages: the next wanted message, download_media
V2Next ==
  \E i \in batch :
  /\ pc[i] = "idle"
  /\ \A j \in batch : j < i => pc[j] \in Finished
  /\ pc' = [pc EXCEPT ![i] = "v2_media"]
  /\ received' = [received EXCEPT ![i] = 0]
  /\ UNCHANGED <<profVars, runVars, disk_kind, confVars, ctlVars, envVars, done,
                 declared, obsVars>>

\* _cb(curr, total): downloaded += curr; state[key] = {...}; save_state(state).
\* save_state does not catch: a failed write raises out of the callback and
\* out of download_media, into "except Exception: continue"
V2Cb ==
  \E i \in batch :
  /\ pc[i] = "v2_media"
  /\ received[i] < real[i]
  /\ \E curr \in (received[i] + 1)..real[i], r \in WriteResults :
       /\ received' = [received EXCEPT ![i] = curr]
       /\ downloaded' = downloaded + curr
       /\ state' = [state EXCEPT ![1] = Entry(downloaded + curr, total_bytes)]
       /\ StoreWriteAs(state', r)
       /\ pc' = [pc EXCEPT ![i] = IF r = "ok" THEN "v2_media" ELSE "ret_false"]
  /\ UNCHANGED <<profVars, runVars, confVars, pause_set, cancel_set, lock, since_save,
                 file, proc, session, telethon_ok, done, declared, obsVars>>

\* download_media returned
V2MediaDone ==
  \E i \in batch :
  /\ pc[i] = "v2_media"
  /\ received[i] = real[i]
  /\ file' = [file EXCEPT ![i] = [exists |-> TRUE, len |-> real[i]]]
  /\ pc' = [pc EXCEPT ![i] = "ret_true"]
  /\ UNCHANGED <<profVars, runVars, disk_kind, confVars, ctlVars, disk, proc, session,
                 telethon_ok, done, received, declared, obsVars>>

\* the transport raised: except Exception: continue
V2MediaError ==
  \E i \in batch :
  /\ pc[i] = "v2_media"
  /\ pc' = [pc EXCEPT ![i] = "ret_false"]
  /\ UNCHANGED <<profVars, runVars, disk_kind, confVars, ctlVars, envVars, done,
                 received, declared, obsVars>>

\* the history record of a download of n bytes (chat, time and duration are
\* not modelled)
HistoryRecord(n) == [size |-> n]

\* after the loop, whatever the messages returned: clear_state_for(chat)
\* (load_state, pop, save_state) and append_history(name, final_downloaded,
\* duration); a failed write of the checkpoint raises before the history is
\* reached
V2Finish ==
  /\ ended = "no"
  /\ telethon_ok
  /\ \A i \in batch : pc[i] \in Finished
  /\ \E r \in WriteResults :
       /\ StoreWriteAs([load_state EXCEPT ![1] = NoEntry], r)
       /\ ended' = IF r = "ok" THEN "saved" ELSE "save_failed"
       /\ hist' = IF r = "ok" THEN append_history_v2(hist, HistoryRecord(downloaded))
                              ELSE hist
  /\ UNCHANGED <<profVars, confVars, ctlVars, file, proc, session, telethon_ok,
                 wrkVars, obsVars, base, probe, rst>>

(* ---------------------- clear_state_for of v2 -------------------------- *)
\* faulty variant of clear_state_for: the whole mapping is dropped
clear_state_all(s, c) == NoState

\* s.pop(str(chat_id), None): the mapping without the entry of chat c
clear_state_for(s, c) == [s EXCEPT ![c] = NoEntry]

\* a call clear_state_for(c): s = load_state(); s.pop(c, None);
\* save_state(s), whose failed write raises; every slot stands for a chat
ClearStateFor ==
  \E c \in Items, r \in WriteResults :
  /\ pc[c] = "idle"
  /\ StoreWriteAs(clear_state_for(load_state, c), r)
  /\ pc' = [pc EXCEPT ![c] = IF r = "ok" THEN "cleared" ELSE "clear_raised"]
  /\ UNCHANGED <<profVars, runVars, confVars, ctlVars, file, proc, session,
                 telethon_ok, done, received, declared, obsVars>>

(* -------------------- _aria2_download of v2.5 -------------------------- *)
\* faulty variant of aria2_download: success as soon as the process exists
aria2_download_spawned(status, exists) == TRUE

\* p.returncode == 0 and outpath.exists()
aria2_download(status, exists) == status = "ok" /\ exists

\* entry of _aria2_download: no binary, or subprocess.run raises before a
\* process exists, gives False; otherwise the process runs and the caller
\* waits in subprocess.run
Aria2Call ==
  \E i \in batch :
  /\ pc[i] = "idle"
  /\ IF ~ARIA_ENABLED
     THEN /\ pc' = [pc EXCEPT ![i] = "ret_false"]
          /\ UNCHANGED proc
     ELSE \E spawned \in BOOLEAN :
            IF spawned
            THEN /\ proc' = [proc EXCEPT ![i] = "running"]
                 /\ pc' = [pc EXCEPT ![i] = "a2_run"]
            ELSE /\ pc' = [pc EXCEPT ![i] = "ret_false"]
                 /\ UNCHANGED proc
  /\ UNCHANGED <<profVars, runVars, disk_kind, confVars, ctlVars, disk, file,
                 session, telethon_ok, done, received, declared, obsVars>>

\* the aria2c process ends with some exit status, having written the output
\* file or not
Aria2Exit ==
  \E i \in batch, status \in {"ok", "failed"}, wrote \in BOOLEAN :
  /\ proc[i] = "running"
  /\ proc' = [proc EXCEPT ![i] = status]
  /\ file' = [file EXCEPT ![i] = IF wrote THEN [exists |-> TRUE, len |-> real[i]]
                                          ELSE @]
  /\ UNCHANGED <<profVars, runVars, disk_kind, confVars, ctlVars, disk,
                 session, telethon_ok, wrkVars, obsVars>>

\* subprocess.run returns once the process has ended; the result is computed
\* from the exit status and the presence of the output file
Aria2Return ==
  \E i \in batch :
  /\ pc[i] = "a2_run"
  /\ proc[i] \in {"ok", "failed"}
  /\ pc' = [pc EXCEPT ![i] = IF aria2_download(proc[i], file[i].exists)
                               THEN "ret_true" ELSE "ret_false"]
  /\ UNCHANGED <<profVars, runVars, disk_kind, confVars, ctlVars, envVars,
                 done, received, declared, obsVars>>

(* ------------------------------ history log --------------------------- *)
\* the number of records ever appended: the callers below number them
Appended == IF hist = <<>> THEN 0 ELSE hist[Len(hist)].size

\* a call append_history(name, total, duration) of v2.5 and v2.6 that wrote
\* the file
AppendHistory ==
  /\ Appended < MaxAppends
  /\ hist' = append_history(hist, HistoryRecord(Appended + 1))
  /\ UNCHANGED <<profVars, confVars, ctlVars, envVars, disk_kind, wrkVars, obsVars,
                 ended, base, probe, rst>>

\* the same call in v2
AppendHistoryV2 ==
  /\ Appended < MaxAppends
  /\ hist' = append_history_v2(hist, HistoryRecord(Appended + 1))
  /\ UNCHANGED <<profVars, confVars, ctlVars, envVars, disk_kind, wrkVars, obsVars,
                 ended, base, probe, rst>>

(***************************************************************************)
(* download_simulated of v2: one loop for the whole selection of a chat    *)
(* (slot 1 holds its worker and its checkpoint entry); paused and canceled *)
(* are locals set from the keys p, r and c read from stdin                 *)
(***************************************************************************)
\* step = min(int(speed * 0.5), chunk * 10), in units
V2Steps == {1, 2}

\* the entry of the chat in the checkpoint file
V2Entry(d) == [load_state EXCEPT ![1] = Entry(d, total_bytes)]

\* total_bytes <= 0: return; done = state.get(key, {}).get("done", 0);
\* paused = False; canceled = False
V2SimBegin ==
  /\ ~telethon_ok
  /\ pc[1] = "idle"
  /\ pc' = [pc EXCEPT ![1] = IF total_bytes <= 0 THEN "v2s_nothing" ELSE "v2s_loop"]
  /\ done' = [done EXCEPT ![1] = IF load_state[1].has THEN load_state[1].done ELSE 0]
  /\ pause_set' = FALSE
  /\ cancel_set' = FALSE
  /\ UNCHANGED <<profVars, runVars, disk_kind, confVars, lock, downloaded, state,
                 since_save, envVars, received, declared, obsVars>>

\* the loop is running: while done < total_bytes and not canceled
V2SimRunning == pc[1] = "v2s_loop" /\ done[1] < total_bytes /\ ~cancel_set

\* a line was read from stdin: p pauses, r resumes, c cancels and breaks
V2SimKey(k) ==
  /\ V2SimRunning
  /\ pause_set' = IF k = "p" THEN TRUE ELSE IF k = "r" THEN FALSE ELSE pause_set
  /\ cancel_set' = (k = "c")
  /\ pc' = [pc EXCEPT ![1] = IF k = "c" THEN "v2s_end" ELSE "v2s_loop"]
  /\ UNCHANGED <<profVars, runVars, disk_kind, confVars, lock, downloaded, state,
                 since_save, envVars, done, received, declared, obsVars>>

\* not paused: done += step, capped at total_bytes; when int(elapsed) % 3 == 0
\* the entry is saved (st = load_state(); st[key] = ...; save_state(st)), and
\* a failed write raises out of the function
V2SimStep ==
  /\ V2SimRunning
  /\ ~pause_set
  /\ \E step \in V2Steps, due \in BOOLEAN, r \in WriteResults :
       /\ done' = [done EXCEPT ![1] = Min(@ + step, total_bytes)]
       /\ IF due
          THEN /\ StoreWriteAs(V2Entry(done'[1]), r)
               /\ pc' = [pc EXCEPT ![1] = IF r = "ok" THEN "v2s_loop" ELSE "v2s_raised"]
          ELSE /\ r = "ok"
               /\ UNCHANGED <<disk, disk_kind, pc>>
  /\ UNCHANGED <<profVars, runVars, confVars, ctlVars, file, proc, session,
                 telethon_ok, received, declared, obsVars>>

\* the loop condition is false: done reached total_bytes
V2SimLeave ==
  /\ pc[1] = "v2s_loop"
  /\ ~(done[1] < total_bytes /\ ~cancel_set)
  /\ pc' = [pc EXCEPT ![1] = "v2s_end"]
  /\ UNCHANGED <<profVars, runVars, disk_kind, confVars, ctlVars, envVars, done,
                 received, declared, obsVars>>

\* after the loop: if canceled the entry is saved with the bytes done, else
\* clear_state_for(chat) and append_history(name, total_bytes, duration)
V2SimEnd ==
  /\ pc[1] = "v2s_end"
  /\ \E r \in WriteResults :
       IF cancel_set
       THEN /\ StoreWriteAs(V2Entry(done[1]), r)
            /\ pc' = [pc EXCEPT ![1] = IF r = "ok" THEN "ret_false" ELSE "v2s_raised"]
            /\ UNCHANGED hist
       ELSE /\ StoreWriteAs([load_state EXCEPT ![1] = NoEntry], r)
            /\ pc' = [pc EXCEPT ![1] = IF r = "ok" THEN "ret_true" ELSE "v2s_raised"]
            /\ hist' = IF r = "ok"
                       THEN append_history_v2(hist, HistoryRecord(total_bytes))
                       ELSE hist
  /\ UNCHANGED <<profVars, ended, base, probe, rst, confVars, ctlVars, file, proc, session,
                 telethon_ok, done, received, declared, obsVars>>

(***************************************************************************)
(* Initial states and specifications                                       *)
(***************************************************************************)
\* the profile computer at rest
ProfileIdle ==
  /\ bps = NoSample
  /\ battery_ok = TRUE
  /\ cfg_refresh = 6
  /\ p_out = NoProfile
  /\ p_prev = NoProfile

\* a freshly constructed controller, no worker started, no external process
InitCtl ==
  /\ proc = [i \in Items |-> "none"]
  /\ session = 1
  /\ pause_set = FALSE
  /\ cancel_set = FALSE
  /\ lock = 0
  /\ downloaded = 0
  /\ since_save = 0
  /\ state = load_state
  /\ pc = [i \in Items |-> "idle"]
  /\ done = [i \in Items |-> 0]
  /\ received = [i \in Items |-> 0]
  /\ declared = [i \in Items |-> 0]
  /\ route = [i \in Items |-> {}]
  /\ since_pause = [i \in Items |-> 0]
  /\ in_chunk = [i \in Items |-> FALSE]
  /\ fresh = FreshStart
  /\ ended = "no"
  /\ base = [i \in Items |-> PrevDone(i)]
  /\ hist = <<>>
  /\ probe = ProbeIdle
  /\ rst = RestoreIdle

\* clean installation: no checkpoint file, no destination file
InitClean ==
  /\ disk = [i \in Items |-> NoEntry]
  /\ disk_kind = "missing"
  /\ file = [i \in Items |-> NoFile]

\* no checkpoint file; an earlier run of _simulated may have left destination
\* files (it writes them at full size and writes no checkpoint entry)
InitLeftFiles ==
  /\ disk = [i \in Items |-> NoEntry]
  /\ disk_kind = "missing"
  /\ file \in [Items -> {NoFile} \cup [exists : {TRUE}, len : {size[j] : j \in batch}]]
  /\ \A i \in Items : file[i].exists => i \in batch /\ file[i].len = size[i]

\* the transport delivers size bytes; of an item of unknown size (0) it
\* delivers nothing or one unit
RealOk(i) == IF size[i] > 0 THEN real[i] = size[i] ELSE real[i] \in {0, 1}

\* item slots outside the batch stay empty
Unused(i) == size[i] = 0 /\ real[i] = 0 /\ ~direct_url[i]

\* items of batch b, of any size up to MaxSize, with or without a direct URL
InitItems(b) ==
  /\ batch = b
  /\ size \in [Items -> 0..MaxSize]
  /\ real \in [Items -> 0..MaxSize]
  /\ direct_url \in [Items -> BOOLEAN]
  /\ \A i \in batch : RealOk(i)
  /\ \A i \in Items \ batch : Unused(i)

\* two items, aria2 available, threshold MaxSize, two worker threads
InitConfig ==
  /\ InitItems({1, 2})
  /\ ARIA_ENABLED = TRUE
  /\ ARIA_MIN_BYTES = MaxSize
  /\ telethon_ok \in BOOLEAN
  /\ profile \in [chunk_size : {1}, concurrency : {2}]

Init == ProfileIdle /\ InitConfig /\ InitClean /\ InitCtl

\* time is observed only through the save throttle: it passes in whole save
\* intervals
TickSteps == {STATE_SAVE_INTERVAL}

\* hand-off and dispatch steps of the workers
NextDispatch ==
  \/ Start
  \/ BatchEnd
  \/ Dispatch
  \/ HandoffCredit
  \/ HandoffFinish
  \/ StreamDispatch
  \/ TelethonDownload
  \/ ProcExit

\* steps of _telethon_download and its callback
NextTelethon ==
  \/ CbEnter
  \/ CbBody
  \/ CbWait
  \/ TlFinish
  \/ TlError

\* steps of _simulated
NextSimulated ==
  \/ SimStart
  \/ SimLoop
  \/ SimWait
  \/ SimChunk
  \/ SimSave
  \/ SimWrite
  \/ SimExit

\* calls from the user interface, and time
NextControl ==
  \/ Pause \/ Resume \/ Cancel
  \/ \E d \in TickSteps : Tick(d)

\* one run of the program
Next == NextDispatch \/ NextTelethon \/ NextSimulated \/ NextControl

Spec == Init /\ [][Next]_vars

(* ---- runs of the program one after the other, on one item ---- *)
InitResumeConfig ==
  /\ InitItems({1})
  /\ ARIA_ENABLED \in BOOLEAN
  /\ ARIA_MIN_BYTES = MaxSize
  /\ telethon_ok \in BOOLEAN
  /\ profile \in [chunk_size : {1, 2}, concurrency : {1}]

InitResume == ProfileIdle /\ InitResumeConfig /\ InitClean /\ InitCtl
NextResume == Next \/ Restart
SpecResume == InitResume /\ [][NextResume]_vars

(* ---- runs one after the other on any checkpoint file, with kills ---- *)
\* what the first run may find: no file, a file left by an earlier run, the
\* same without the right to read it, or a file that is not JSON
StoreKinds == {"missing", "valid", "unreadable", "invalid"}

InitStore ==
  /\ file = [i \in Items |-> NoFile]
  /\ disk_kind \in StoreKinds
  /\ disk \in [Items -> {NoEntry} \cup {Entry(d, size[1]) : d \in 0..size[1]}]
  /\ \A i \in Items \ batch : disk[i] = NoEntry
  /\ disk_kind \in {"missing", "invalid"} => disk = NoState

InitCrash == ProfileIdle /\ InitResumeConfig /\ InitStore /\ InitCtl
NextCrash == NextResume \/ KillInSave
SpecCrash == InitCrash /\ [][NextCrash]_vars

(* ---- download_with_telethon of v2 on a chat with two media messages ---- *)
InitV2Config ==
  /\ batch = {1, 2}
  /\ size \in [Items -> 0..MaxSize]
  /\ real = size
  /\ \A i \in batch : size[i] > 0
  /\ \A i \in Items \ batch : size[i] = 0
  /\ direct_url = [i \in Items |-> FALSE]
  /\ ARIA_ENABLED = FALSE
  /\ ARIA_MIN_BYTES = MaxSize
  /\ telethon_ok = TRUE
  /\ profile = [chunk_size |-> 1, concurrency |-> 1]

InitV2 == ProfileIdle /\ InitV2Config /\ InitClean /\ InitCtl
NextV2 == V2Next \/ V2Cb \/ V2MediaDone \/ V2MediaError \/ V2Finish
SpecV2 == InitV2 /\ [][NextV2]_vars

(* ---- download_simulated of v2 on a chat, with or without an entry left
        in the checkpoint by an earlier cancelled download ---- *)
InitV2SimConfig ==
  /\ batch = {1}
  /\ size \in [Items -> 0..MaxSize]
  /\ real = size
  /\ size[3] = 0
  /\ direct_url = [i \in Items |-> FALSE]
  /\ ARIA_ENABLED = FALSE
  /\ ARIA_MIN_BYTES = MaxSize
  /\ telethon_ok = FALSE
  /\ profile = [chunk_size |-> 1, concurrency |-> 1]

InitV2SimStore ==
  /\ file = [i \in Items |-> NoFile]
  /\ disk \in [Items -> {NoEntry} \cup {Entry(d, total_bytes) : d \in 0..total_bytes}]
  /\ \A i \in Items \ {1} : disk[i] = NoEntry
  /\ disk_kind = IF disk[1].has THEN "valid" ELSE "missing"

InitV2Sim == ProfileIdle /\ InitV2SimConfig /\ InitV2SimStore /\ InitCtl

V2Keys == {"p", "r", "c"}

NextV2Sim ==
  \/ V2SimBegin
  \/ \E k \in V2Keys : V2SimKey(k)
  \/ V2SimStep
  \/ V2SimLeave
  \/ V2SimEnd

SpecV2Sim == InitV2Sim /\ [][NextV2Sim]_vars

(* ---- download_simulated of v2 on the checkpoint an earlier download of
        the chat left, whatever its selection was; the loop is scheduled
        fairly ---- *)
InitV2SimLeftStore ==
  /\ file = [i \in Items |-> NoFile]
  /\ disk \in [Items -> {NoEntry} \cup
                 {Entry(d, n) : d \in 0..(2 * MaxSize), n \in 1..(2 * MaxSize)}]
  /\ disk[1].done <= disk[1].total
  /\ \A i \in Items \ {1} : disk[i] = NoEntry
  /\ disk_kind = IF disk[1].has THEN "valid" ELSE "missing"

InitV2SimLeft == ProfileIdle /\ InitV2SimConfig /\ InitV2SimLeftStore /\ InitCtl

\* a step of the function itself, as opposed to a key typed by the user
V2SimWorker == V2SimBegin \/ V2SimStep \/ V2SimLeave \/ V2SimEnd

SpecV2SimLeft == InitV2SimLeft /\ [][NextV2Sim]_vars /\ WF_vars(V2SimWorker)

(* ---- dispatch: one item, every threshold, size, availability, URL ---- *)
InitDispatchConfig ==
  /\ InitItems({1})
  /\ ARIA_ENABLED \in BOOLEAN
  /\ ARIA_MIN_BYTES \in 1..MaxSize
  /\ telethon_ok \in BOOLEAN
  /\ profile \in [chunk_size : {1, 2}, concurrency : {1}]

InitDispatch == ProfileIdle /\ InitDispatchConfig /\ InitClean /\ InitCtl
SpecDispatch == InitDispatch /\ [][Next]_vars

(* ---- end-to-end scenario: 50MB, 150MB, 10MB, threshold 100MB (unit 10MB) ---- *)
ScenarioSize(i) == IF i = 1 THEN 5 ELSE IF i = 2 THEN 15 ELSE IF i = 3 THEN 1 ELSE 0

InitScenario ==
  /\ batch = {1, 2, 3}
  /\ size = [i \in Items |-> ScenarioSize(i)]
  /\ real = size
  /\ direct_url = [i \in Items |-> i \in batch]
  /\ ARIA_ENABLED = TRUE
  /\ ARIA_MIN_BYTES = 10
  /\ telethon_ok = FALSE
  /\ profile \in [chunk_size : {3}, concurrency : {3}]

InitE2E == ProfileIdle /\ InitScenario /\ InitLeftFiles /\ InitCtl

\* without a Telegram client every stream transfer runs in _simulated
NextE2E == NextDispatch \/ NextSimulated \/ NextControl

SpecE2E == InitE2E /\ [][NextE2E]_vars

(* ---- fair scheduling of the worker threads, stream engine _simulated,
        no item with a direct URL ---- *)
InitLiveConfig ==
  /\ InitItems({1, 2})
  /\ \A i \in batch : ~direct_url[i]
  /\ ARIA_ENABLED = TRUE
  /\ ARIA_MIN_BYTES = MaxSize
  /\ telethon_ok = FALSE
  /\ profile \in [chunk_size : {1}, concurrency : {2}]

InitLive == ProfileIdle /\ InitLiveConfig /\ InitClean /\ InitCtl

\* a step of a worker thread or of the batch runner
NextWorker ==
  \/ Start \/ BatchEnd \/ Dispatch
  \/ StreamDispatch \/ TelethonDownload
  \/ NextSimulated

NextLive == NextWorker \/ NextControl

\* a thread that can run is run in the end
SpecLive == InitLive /\ [][NextLive]_vars /\ WF_vars(NextWorker)

(* ---- a batch of two items transferred one after the other through the
        Telegram client, fair scheduling of the worker thread ---- *)
InitSeqConfig ==
  /\ InitItems({1, 2})
  /\ \A i \in batch : ~direct_url[i]
  /\ ARIA_ENABLED = TRUE
  /\ ARIA_MIN_BYTES = MaxSize
  /\ telethon_ok = TRUE
  /\ profile \in [chunk_size : {1}, concurrency : {1}]

InitSeq == ProfileIdle /\ InitSeqConfig /\ InitClean /\ InitCtl

\* a step of the worker thread, of the transport or of the batch runner
NextSeqWorker ==
  \/ Start \/ BatchEnd \/ Dispatch
  \/ StreamDispatch \/ TelethonDownload
  \/ NextTelethon

NextSeq == NextSeqWorker \/ NextControl

SpecSeq == InitSeq /\ [][NextSeq]_vars /\ WF_vars(NextSeqWorker)

(* ---- the profile computer alone ---- *)
ConfigIdle ==
  /\ batch = {}
  /\ size = [i \in Items |-> 0]
  /\ real = [i \in Items |-> 0]
  /\ direct_url = [i \in Items |-> FALSE]
  /\ ARIA_ENABLED = FALSE
  /\ ARIA_MIN_BYTES = MaxSize
  /\ telethon_ok = FALSE
  /\ profile = [chunk_size |-> 1, concurrency |-> 1]

InitP == InitProfile /\ ConfigIdle /\ InitClean /\ InitCtl
NextProfile == ComputeProfile \/ \E v \in RefreshInputs : SetRefreshInterval(v)
SpecProfile == InitP /\ [][NextProfile]_vars

(* ---- calls of measure_speed_sample one after the other ---- *)
InitProbe == ProfileIdle /\ ConfigIdle /\ InitClean /\ InitCtl
NextProbe ==
  \/ ProbeCall \/ ProbeGet \/ ProbeChunk \/ ProbeReadError
  \/ ProbeEnd \/ ProbeTime \/ ProbeReturn
SpecProbe == InitProbe /\ [][NextProbe]_vars

(* ---- restore_backup_flow called again and again from the menu ---- *)
InitRestore == ProfileIdle /\ ConfigIdle /\ InitClean /\ InitCtl
NextRestore == OwnerSetup \/ ClockAdvance \/ RestoreCall
SpecRestore == InitRestore /\ [][NextRestore]_vars

(* ---- clear_state_for called for one chat after the other, on any store
        of the three chats ---- *)
InitClearStore ==
  /\ file = [i \in Items |-> NoFile]
  /\ disk \in [Items -> {NoEntry} \cup
                 {Entry(d, n) : d \in 0..MaxSize, n \in 1..MaxSize}]
  /\ \A i \in Items : disk[i].done <= disk[i].total
  /\ disk_kind \in {"missing", "valid"}
  /\ disk_kind = "missing" => disk = NoState

InitClear == ProfileIdle /\ ConfigIdle /\ InitClearStore /\ InitCtl
NextClear == ClearStateFor
SpecClear == InitClear /\ [][NextClear]_vars

(* ---- _aria2_download of v2.5 called once per item, binary found or not,
        output file present beforehand or not ---- *)
InitAria2Config ==
  /\ batch = Items
  /\ size = [i \in Items |-> 1]
  /\ real = size
  /\ direct_url = [i \in Items |-> TRUE]
  /\ ARIA_ENABLED \in BOOLEAN
  /\ ARIA_MIN_BYTES = 0
  /\ telethon_ok = FALSE
  /\ profile = [chunk_size |-> 1, concurrency |-> 1]

InitAria2Store ==
  /\ file \in [Items -> {NoFile, [exists |-> TRUE, len |-> 0]}]
  /\ disk = NoState
  /\ disk_kind = "missing"

InitAria2 == ProfileIdle /\ InitAria2Config /\ InitAria2Store /\ InitCtl
NextAria2 == Aria2Call \/ Aria2Exit \/ Aria2Return
SpecAria2 == InitAria2 /\ [][NextAria2]_vars

(* ---- the history log alone: records appended one after the other ---- *)
InitHistory == ProfileIdle /\ ConfigIdle /\ InitClean /\ InitCtl
NextHistory == AppendHistory
SpecHistory == InitHistory /\ [][NextHistory]_vars
NextHistoryV2 == AppendHistoryV2
SpecHistoryV2 == InitHistory /\ [][NextHistoryV2]_vars

(***************************************************************************)
(* Properties                                                              *)
(***************************************************************************)
\* the worker of item i left the _simulated loop in the middle of the
\* transfer: it saw the cancel flag
SimCancelled(i) == pc[i] = "sim_exit" /\ 0 < done[i] /\ done[i] < size[i]

\* the worker of item i sees the cancel flag in the wait of _cb
CbCancelled(i) == pc[i] = "tl_wait" /\ cancel_set

\* C1: every checkpoint entry satisfies 0 <= done <= total in every reachable
\* state, after any sequence of progress callbacks, hand-off credits, pause(),
\* resume() and cancel(), also when the transport declares no total and the
\* item's assumed size is 0.
C1_DoneWithinTotal ==
  \A i \in batch :
    state[i].has => 0 <= state[i].done /\ state[i].done <= state[i].total

\* C2: the checkpointed done value of an item never decreases from one write
\* to the next while the entry exists, neither on disk (across sessions) nor
\* in memory within a session, also when the transport of a resumed session
\* restarts its cumulative count from zero.
C2_DoneNeverDecreases ==
  [][\A i \in batch :
       /\ (disk[i].has /\ disk'[i].has) => disk'[i].done >= disk[i].done
       /\ (session' = session /\ state[i].has /\ state'[i].has)
            => state'[i].done >= state[i].done]_vars

\* C3: when cancel is observed during a stream transfer of an item, the
\* checkpoint holds an entry for the item whose done value is exactly the
\* number of bytes the stream engine reported for it.
C3_CancelKeepsReported ==
  \A i \in batch :
    /\ SimCancelled(i) => state[i].has /\ state[i].done = done[i]
    /\ CbCancelled(i) => state[i].has /\ state[i].done = received[i]

\* C4: _download_one invokes the hand-off engine if and only if
\* size >= threshold, the hand-off is available and a direct URL is present;
\* size = threshold with URL and hand-off available goes to the hand-off,
\* size = threshold - 1 goes to the stream engine whatever the availability.
C4_DispatchPolicy ==
  \A i \in batch :
    pc[i] \notin {"idle", "dispatch"} =>
      /\ ("handoff" \in route[i]) <=>
           (size[i] >= ARIA_MIN_BYTES /\ ARIA_ENABLED /\ direct_url[i])
      /\ (size[i] = ARIA_MIN_BYTES - 1 /\ pc[i] # "nohandoff") => route[i] = {"stream"}

\* C4 witness: an item of exactly the threshold size, with URL and hand-off
\* available, was handed off.
C4_Witness ==
  \E i \in batch :
    /\ size[i] = ARIA_MIN_BYTES /\ ARIA_ENABLED /\ direct_url[i]
    /\ pc[i] = "ret_true" /\ route[i] = {"handoff"}

RECURSIVE SumSizes(_)
SumSizes(S) ==
  IF S = {} THEN 0
  ELSE LET x == CHOOSE y \in S : TRUE IN size[x] + SumSizes(S \ {x})

\* every worker returned success
BatchDone == \A i \in batch : pc[i] = "ret_true"
\* every hand-off that was tried started its process
NoSpawnFailure == \A i \in batch : route[i] \in {{"handoff"}, {"stream"}}
\* the dispatch and the total of the 50MB, 150MB, 10MB scenario
ScenarioResult ==
  /\ route[1] = {"stream"} /\ route[2] = {"handoff"} /\ route[3] = {"stream"}
  /\ downloaded = 21

\* C5 as stated: a batch run to completion from an empty checkpoint, without
\* cancel, transport failure or failed spawn, ends with the aggregate counter
\* equal to the sum of the item sizes under every interleaving; the scenario
\* dispatches Stream, Hand-off, Stream and ends with 210MB.
C5_AggregateIsSum ==
  (BatchDone /\ ~cancel_set /\ NoSpawnFailure) =>
    (downloaded = SumSizes(batch) /\ ScenarioResult)

\* the table of the profile computer as specified: unknown is none only
SpecChunk(b) ==
  IF ~b.known THEN 256000
  ELSE IF b.v >= 10000000 THEN 1000000
  ELSE IF b.v >= 2000000 THEN 512000
  ELSE IF b.v >= 500000 THEN 256000
  ELSE 128000
SpecConcurrency(b) ==
  IF ~b.known THEN 1
  ELSE IF b.v >= 10000000 THEN 4
  ELSE IF b.v >= 2000000 THEN 2
  ELSE 1
SpecFastMode(b) == b.known /\ b.v >= 2000000

\* C6: with powerOk = true, compute_profile equals the specified table for
\* every throughput input, each threshold inclusive.
C6_ProfileTable ==
  (p_out.set /\ battery_ok) =>
    /\ p_out.chunk_size = SpecChunk(bps)
    /\ p_out.concurrency = SpecConcurrency(bps)
    /\ p_out.fast_mode = SpecFastMode(bps)

\* C7: with powerOk = false, compute_profile returns chunk size
\* max(64000, tableChunk / 2), concurrency 1 and the table's fastMode; for
\* 15,000,000 bytes per second that is chunk 500,000 and concurrency 1.
C7_LowPower ==
  (p_out.set /\ ~battery_ok) =>
    /\ p_out.chunk_size = Max(64000, SpecChunk(bps) \div 2)
    /\ p_out.concurrency = 1
    /\ p_out.fast_mode = SpecFastMode(bps)
    /\ (bps.known /\ bps.v = 15000000) => p_out.chunk_size = 500000

\* C8: two calls of the profile computer with the same (bytesPerSecond,
\* powerOk) return the same profile in every field, whatever happened in
\* between, a change of the stored refresh interval included.
C8_SameInputsSameProfile ==
  (p_prev.set /\ p_out.set) => p_prev = p_out

\* the hand-off of item i returned true and nothing else was done for the item
HandedOff(i) == pc[i] = "ho_after" \/ (pc[i] = "ret_true" /\ route[i] = {"handoff"})

\* C9: when the hand-off of an item returns true the controller, in one
\* locked step and without waiting for the external process, adds the full
\* item size to the aggregate counter and sets the checkpoint entry to
\* done = total = size; the entry stays so when the process fails later.
C9_CreditAtSpawn ==
  /\ [](\A i \in batch : HandedOff(i) => state[i] = Entry(size[i], size[i]))
  /\ [][\A i \in batch :
          (pc[i] = "credit" /\ pc'[i] # "credit") =>
            /\ lock = 0 /\ lock' = 0
            /\ pc'[i] = "ho_after"
            /\ downloaded' = downloaded + size[i]
            /\ state'[i] = Entry(size[i], size[i])
            /\ proc'[i] = proc[i]]_vars

\* C9 witness: the external process of a handed-off item failed and the
\* checkpoint reports the item complete.
C9_Witness ==
  \E i \in batch :
    /\ pc[i] = "ret_true" /\ route[i] = {"handoff"} /\ size[i] > 0
    /\ proc[i] = "failed"
    /\ state[i] = Entry(size[i], size[i])
    /\ downloaded >= size[i]

C11_ResumeCompletes ==
  /\ (<>[](~pause_set /\ ~cancel_set)) =>
       <>(/\ \A i \in batch : pc[i] = "ret_true"
          /\ \A i \in batch : "stream" \in route[i] => done[i] = size[i]
          /\ downloaded = SumSizes(batch))
  /\ [][\A i \in batch :
          (Blocked /\ Blocked' /\ pc[i] = "sim_wait") =>
            (pc'[i] = "sim_wait" /\ done'[i] = done[i])]_vars

\* C11 witness: a worker waits in _wait_if_paused, paused after its first
\* chunk, with bytes left to transfer.
C11_Witness ==
  \E i \in batch :
    /\ Blocked /\ pc[i] = "sim_wait"
    /\ 0 < done[i] /\ done[i] < size[i]

\* C12: after cancel(), called while running or paused, every worker stops
\* at its next check point and returns failure, having transferred at most
\* the chunk that was in progress, and the checkpoint entries written before
\* the cancel are kept.
C12_CancelStopsWorkers ==
  [][\A i \in batch :
       /\ (cancel_set /\ pc[i] \notin Finished /\ pc'[i] \in Finished) =>
            pc'[i] = "ret_false"
       /\ (cancel_set /\ state[i].has) => state'[i].has]_vars

\* C13: after a stream transfer was aborted by cancel with fewer than size
\* bytes received, the destination file is partial: its length is the bytes
\* received, less than size (so that a later session does not take the item
\* for complete).
C13_PartialFileKept ==
  \A i \in batch :
    (pc[i] = "ret_false" /\ ~telethon_ok /\ cancel_set /\ done[i] < size[i]) =>
      (file[i].len = done[i] /\ file[i].len < size[i])

\* C14: any two throttled saves of the checkpoint are at least the save
\* interval apart, under every interleaving of the workers: when a worker
\* writes the file through _save_progress, the interval has passed since the
\* last such write.
C14_SavesAnIntervalApart ==
  [][(\E i \in batch : pc[i] = "sim_write" /\ pc'[i] = "sim_loop") =>
       since_save >= STATE_SAVE_INTERVAL]_vars

\* C15: when a batch ends, by completion or by cancel, a final save of the
\* checkpoint is made whatever time has passed since the last save: once it
\* is written, the file holds the in-memory checkpoint.
C15_FinalSave ==
  ended = "saved" => (disk = state /\ disk_kind = "valid")

\* C15 witness: a batch ended with an entry in the checkpoint and less than
\* the save interval since the last throttled save, and the file holds it.
C15_Witness ==
  /\ ended = "saved" /\ since_save < STATE_SAVE_INTERVAL
  /\ \E i \in batch : state[i].has /\ disk[i] = state[i]

\* C16: a save is atomic with respect to a crash: the checkpoint file is
\* never left partially written, and the load that follows a crash returns
\* the previous content of the file or the content that was being written.
C16_SaveIsAtomic ==
  [][session' # session =>
       (disk_kind' # "torn" /\ (state' = load_state \/ state' = state))]_vars

\* the controller was constructed and no worker has run
JustConstructed ==
  /\ \A i \in Items : pc[i] = "idle"
  /\ ended = "no"

\* C17: load_state does not raise: on a checkpoint file that is missing,
\* unreadable or not valid JSON it returns the empty mapping, and a
\* controller constructed on such a file has an empty checkpoint.
C17_LoadNeverFails ==
  (JustConstructed /\ disk_kind # "valid") =>
    (state = NoState /\ downloaded = 0 /\ lock = 0)

\* C17 witness: the program was run again on a file that holds an entry but
\* cannot be read, and the checkpoint of the new controller is empty.
C17_Witness ==
  /\ JustConstructed /\ session > 1 /\ disk_kind = "unreadable"
  /\ \E i \in batch : disk[i].has /\ disk[i].done > 0
  /\ state = NoState

\* worker positions inside a mutation of the shared state of the controller
MutatingPcs == {"tl_locked", "sim_write"}

\* C19: every mutation of the aggregate counter, of the in-memory checkpoint
\* and of the last-save time is made by a thread that holds the lock of the
\* controller, and no two threads are inside such a mutation at a time.
C19_MutationsUnderLock ==
  /\ \A i \in batch : pc[i] \in MutatingPcs => lock = i
  /\ Cardinality({i \in batch : pc[i] \in MutatingPcs}) <= 1

\* C20: the progress reports of one item, cumulative and non-decreasing,
\* add to the aggregate counter, in all, the last report minus the done
\* value the item had in the checkpoint at session start (one item in the
\* batch: the counter is the contribution of the item), and the counter
\* never decreases.
C20_DeltaAccounting ==
  /\ \A i \in batch :
       (batch = {i} /\ pc[i] = "tl_wait" /\ received[i] >= base[i]) =>
         downloaded = received[i] - base[i]
  /\ downloaded >= 0

\* C18: a failed write of the checkpoint does not raise into the worker or
\* the progress callback and does not abort the current item: the step of a
\* progress report never ends the transfer of the item, it leaves the
\* mapping and the counter as the report set them, and a write that succeeds
\* puts the current mapping into the file.
C18_FailedWriteNotFatal ==
  [][\A i \in batch :
       received'[i] > received[i] =>
         /\ pc'[i] \notin Finished
         /\ (disk_kind' = "valid" /\ disk' # disk) => disk' = state']_vars

\* the transfer of item i ended by a transport error
TransportFailed(i) == pc[i] = "ret_false" /\ "stream" \in route[i] /\ telethon_ok

\* C21: a transport failure during the transfer of an item makes the engine
\* return failure for that item and changes nothing for the other items;
\* the item is not attempted again in the batch, and unless the batch stays
\* paused every item of the batch is attempted and its worker returns.
C21_FailureIsPerItem ==
  /\ [][\A i \in batch :
          /\ (pc[i] = "tl_xfer" /\ pc'[i] # "tl_xfer") =>
               /\ pc'[i] \in {"tl_locked", "ret_true", "ret_false"}
               /\ \A j \in batch \ {i} : pc'[j] = pc[j]
          /\ pc[i] \in Finished => pc'[i] = pc[i]]_vars
  /\ (<>[](~Blocked)) => <>(\A i \in batch : pc[i] \in Finished)

\* C21 witness: the first item failed in the middle of its transfer and the
\* worker is transferring the second item.
C21_Witness ==
  /\ TransportFailed(1) /\ 0 < received[1] /\ received[1] < real[1]
  /\ pc[2] = "tl_wait" /\ received[2] > 0
\* C22: a download that ended as completed has removed the entry of the chat
\* from the checkpoint file and appended exactly one history record with the
\* total bytes; one that ended by cancel kept the entry with the bytes done
\* and appended nothing; a run in which items failed is not recorded as a
\* completed download.
C22_EndOfDownload ==
  /\ (~telethon_ok /\ pc[1] = "ret_true") =>
       (~disk[1].has /\ hist = <<HistoryRecord(total_bytes)>>)
  /\ (~telethon_ok /\ pc[1] = "ret_false") =>
       (disk[1] = Entry(done[1], total_bytes) /\ hist = <<>>)
  /\ (telethon_ok /\ ended = "saved") =>
       IF \A i \in batch : pc[i] = "ret_true"
       THEN ~disk[1].has /\ hist = <<HistoryRecord(total_bytes)>>
       ELSE hist = <<>>
\* C23: after any sequence of append_history calls on a valid log, the log
\* holds exactly the most recent min(n, 300) records in append order, n being
\* the number of records ever appended: the 301st append evicts the oldest
\* record and no other.
C23_LastThreeHundred ==
  LET n == Appended
      k == Min(n, 300)
  IN  /\ Len(hist) = k
      /\ \A j \in 1..k : hist[j] = HistoryRecord(n - k + j)
\* C24: measure_speed_sample never raises to its caller: it returns none when
\* no network library is available, when the request fails or times out and
\* when the elapsed time is not positive, and otherwise bytes read divided by
\* elapsed time; it stops reading as soon as the bytes read reach 40,000.
C24_ProbeNeverRaises ==
  /\ probe.pc \in {"idle", "get", "read", "timing", "done"}
  /\ probe.pc = "done" =>
       IF ~probe.requests_ok \/ probe.failed \/ probe.dt <= 0
       THEN probe.result = NoRate
       ELSE probe.result = Rate(probe.total, probe.dt)
  /\ probe.pc = "read" => probe.total < 40000
  /\ probe.total < 40000 + PROBE_CHUNK
  /\ (probe.pc = "timing" /\ probe.total < 40000) => probe.left = 0

\* C24 witness: a call returned a rate after it stopped at the limit with
\* more of the body left to read.
C24_Witness ==
  /\ probe.pc = "done" /\ probe.result.known
  /\ probe.total >= 40000 /\ probe.left > 0
  /\ probe.result = Rate(probe.total, probe.dt)
\* C25: at every moment the number of items in flight is at most the
\* concurrency of the active profile, and each item is processed once: an
\* item is handed to a worker only when no worker has it or had it in the
\* batch.
C25_BoundedWorkers ==
  /\ [](Cardinality(InFlight) <= profile.concurrency)
  /\ [][\A i \in batch :
          (pc'[i] = "dispatch" /\ pc[i] # "dispatch") => pc[i] = "idle"]_vars
  /\ [][\A i \in batch : pc[i] # "idle" => pc'[i] # "idle"]_vars

\* C25 witness: with concurrency 1 one item is being transferred and the
\* other item of the batch waits for the worker.
C25_Witness ==
  /\ profile.concurrency = 1
  /\ pc[1] = "tl_wait" /\ received[1] > 0
  /\ pc[2] = "idle"
\* C26: Cancelled is absorbing: once cancel() has been called no call of
\* pause() or resume() clears the cancel flag, and no worker begins the
\* transfer of another chunk (a worker that was in a chunk finishes it); in
\* download_simulated of v2 the loop is left at once.
C26_CancelledIsAbsorbing ==
  [][cancel_set =>
       /\ cancel_set'
       /\ \A i \in batch : pc'[i] \in ChunkPcs => pc[i] \in ChunkPcs
       /\ \A i \in batch : pc[i] \in {"v2s_end", "ret_false"} => done'[i] = done[i]]_vars
\* the item is at or past the credit of a hand-off
Credited(i) == pc[i] = "credit" \/ HandedOff(i)

\* C27: when the external downloader is unavailable or disabled, or when
\* starting the external process fails, an item with size >= threshold is
\* neither lost nor credited: it goes to the stream engine, and the aggregate
\* counter and the checkpoint are changed only by that stream transfer.
C27_FallbackToStream ==
  /\ [](\A i \in batch : Credited(i) => (ARIA_ENABLED /\ proc[i] # "none"))
  /\ [][\A i \in batch :
          /\ (pc[i] = "dispatch" /\ pc'[i] = "nohandoff") =>
               (downloaded' = downloaded /\ state' = state /\ disk' = disk
                /\ proc' = proc)
          /\ (pc[i] = "nohandoff" /\ pc'[i] # "nohandoff") =>
               (pc'[i] = "telethon_download" /\ "stream" \in route'[i]
                /\ downloaded' = downloaded /\ state' = state /\ disk' = disk)]_vars

\* C27 witness: starting the external process failed for an item of the
\* threshold size or more, and the stream engine transferred it: the counter
\* holds what the stream delivered and no process exists.
C27_Witness ==
  \E i \in batch :
    /\ size[i] >= ARIA_MIN_BYTES /\ ARIA_ENABLED /\ direct_url[i]
    /\ route[i] = {"handoff", "stream"} /\ proc[i] = "none"
    /\ pc[i] = "ret_true" /\ downloaded = size[i]
\* C28: with an owner and a stored owner code, the failed attempt that makes
\* them three sets blocked_until to the current time plus 24 hours, and
\* while blocked_until is later than the current time restore_backup_flow
\* returns without asking for a code and without overwriting any file.
C28_RestoreLockout ==
  /\ [][(rst.owner /\ rst.stored /\ rst'.attempts > rst.attempts) =>
          /\ rst'.attempts = rst.attempts + 1
          /\ rst'.restored = rst.restored
          /\ rst'.attempts >= 3 => rst'.blocked_until = rst.now + 24 * 3600
          /\ rst'.attempts < 3 => rst'.blocked_until = rst.blocked_until]_vars
  /\ [][(rst.owner /\ rst.blocked_until > rst.now /\ rst'.calls > rst.calls) =>
          /\ rst'.asked = rst.asked
          /\ rst'.restored = rst.restored
          /\ rst'.blocked_until = rst.blocked_until]_vars
  /\ [](rst.stored /\ rst.attempts < 3 => rst.blocked_until = 0)

\* C28 witness: the third failed attempt locked the device, less than 24
\* hours have passed, and a further call returned at the lockout test.
C28_Witness ==
  /\ rst.owner /\ rst.stored /\ rst.attempts = 3
  /\ rst.now > 1 /\ rst.blocked_until > rst.now
  /\ rst.last = "locked" /\ rst.asked = 3 /\ rst.restored = 0
\* C29: a measured throughput of 0 bytes per second, a number and not none,
\* is classified in the row below 0.5 Mbps: chunk size 128,000, concurrency
\* 1, fastMode false (power being ok), not in the row of an unknown
\* throughput.
C29_ZeroIsSlow ==
  (p_out.set /\ battery_ok /\ bps.known /\ bps.v = 0) =>
    /\ p_out.chunk_size = 128000
    /\ p_out.concurrency = 1
    /\ p_out.fast_mode = FALSE
\* the worker of item i is in _simulated with every byte of the item
\* transferred and counted
SimCountedAll(i) ==
  /\ pc[i] \in {"sim_save", "sim_write", "sim_loop", "sim_exit"}
  /\ size[i] > 0 /\ done[i] = size[i]

\* an item whose last chunk was counted before cancel was called is never
\* returned as failed
SimCompleteNeverFalse ==
  \A i \in Items :
    []((i \in batch /\ SimCountedAll(i) /\ ~cancel_set) => [](pc[i] # "ret_false"))

\* C30: _simulated returns false whenever the cancel flag is set when it
\* returns, and true only when every byte of the item was transferred and
\* counted, in this session or as the file of an earlier one; it never
\* returns true while cancel is set, and never returns false for an item
\* whose last chunk was counted before cancel was called.
C30_StreamResult ==
  /\ [][\A i \in batch :
          /\ (pc[i] \in {"sim_start", "sim_exit"} /\ pc'[i] = "ret_true") =>
               /\ ~cancel_set
               /\ done[i] = size[i] \/ (file[i].exists /\ file[i].len >= size[i])
          /\ (pc[i] \in {"sim_start", "sim_exit"} /\ pc'[i] \in Finished /\ cancel_set) =>
               pc'[i] = "ret_false"]_vars
  /\ SimCompleteNeverFalse

\* C31: while the controller is paused, and after cancel() was called,
\* _download_one starts no external process and credits no item size to the
\* aggregate counter or to the checkpoint.
C31_FlagsGovernDispatch ==
  [][(pause_set \/ cancel_set) =>
       \A i \in batch :
         /\ (proc[i] = "none" => proc'[i] = "none")
         /\ (pc[i] = "credit" =>
               (pc'[i] = "credit" /\ downloaded' = downloaded /\ state' = state))]_vars

\* C32: clear_state_for of a chat removes exactly the entry of that chat
\* from the persisted store and leaves the entry of every other chat as it
\* was; clearing a chat that has no entry leaves the store unchanged.
C32_ClearIsLocal ==
  [][\A c \in Items :
       (pc[c] = "idle" /\ pc'[c] = "cleared") =>
         /\ disk'[c] = NoEntry
         /\ \A o \in Items \ {c} : disk'[o] = disk[o]
         /\ ~disk[c].has => disk' = disk]_vars

\* C32 witness: the entry of one chat was cleared and the store still holds
\* the entry of another chat, for which no clear was called.
C32_Witness ==
  \E c, o \in Items :
    /\ pc[c] = "cleared" /\ ~disk[c].has
    /\ pc[o] = "idle" /\ disk[o].has /\ disk[o].done > 0
    /\ disk_kind = "valid"

\* C33: _aria2_download of v2.5 has returned true only when the external
\* process has ended with exit status 0 and the output file exists; it has
\* returned false when the binary is missing, starting the process raised,
\* the exit status is not 0 or the file is absent; it never returns while
\* the process is running.
C33_VerifiedDownload ==
  \A i \in batch :
    /\ pc[i] \in Finished => proc[i] # "running"
    /\ pc[i] = "ret_true" => (ARIA_ENABLED /\ proc[i] = "ok" /\ file[i].exists)
    /\ (pc[i] \in Finished /\ (~ARIA_ENABLED \/ proc[i] # "ok" \/ ~file[i].exists))
         => pc[i] = "ret_false"

\* C33 witness: one call returned true after exit status 0 with the file
\* present, another returned false after exit status 0 without the file,
\* and a third after a non-zero exit status with the file present.
C33_Witness ==
  \E i, j, k \in batch :
    /\ pc[i] = "ret_true" /\ proc[i] = "ok" /\ file[i].exists
    /\ pc[j] = "ret_false" /\ proc[j] = "ok" /\ ~file[j].exists
    /\ pc[k] = "ret_false" /\ proc[k] = "failed" /\ file[k].exists

\* the sum of the done values of the checkpoint entries of the items of S
RECURSIVE SumDone(_)
SumDone(S) ==
  IF S = {} THEN 0
  ELSE LET x == CHOOSE y \in S : TRUE IN PrevDone(x) + SumDone(S \ {x})

\* C34: in a session started with an empty checkpoint (the transport reports
\* non-decreasing byte counts), whenever no thread holds the lock the
\* aggregate counter equals the sum of the done values of the checkpoint
\* entries written in the session.
C34_CounterIsSumOfEntries ==
  (fresh /\ lock = 0) => downloaded = SumDone(batch)

\* the same on the Telegram transport and the hand-off alone
C34_OnTelethon ==
  (fresh /\ lock = 0 /\ telethon_ok) => downloaded = SumDone(batch)

\* worker positions inside a pause wait: _wait_if_paused of the stream loop
\* and the wait loop at the end of _cb
WaitPcs == {"sim_wait", "tl_wait"}

\* C35: a worker in a pause wait does not hold the lock; the lock is held
\* only inside the locked block of the callback, whose holder can always go
\* on and release it, so no worker and no control call waits for a paused
\* worker (pause(), resume() and cancel() take no lock at all).
C35_NoLockWhileWaiting ==
  [](/\ \A i \in batch : pc[i] \in WaitPcs => lock # i
     /\ lock # 0 => (lock \in batch /\ pc[lock] = "tl_locked" /\ ENABLED CbBody))

\* C35 witness: the controller is paused, one worker waits at the end of its
\* callback and another worker is inside the locked block meanwhile.
C35_Witness ==
  \E i, j \in batch :
    /\ i # j /\ Blocked
    /\ pc[i] = "tl_wait"
    /\ pc[j] = "tl_locked" /\ lock = j

\* a step in which a control flag changes: a call of pause(), resume() or
\* cancel(), the only writers of the flags
FlagStep == pause_set' # pause_set \/ cancel_set' # cancel_set

\* a control call changes one flag and leaves the aggregate counter, the
\* checkpoint mapping and the time since the last save as they were
ControlFrame ==
  FlagStep =>
    /\ downloaded' = downloaded /\ state' = state /\ since_save' = since_save
    /\ lock' = lock /\ disk' = disk
    /\ pause_set' = pause_set \/ cancel_set' = cancel_set

\* pause() and resume() called twice do what one call does
ControlIdempotent ==
  /\ pause(pause(Flags)) = pause(Flags)
  /\ resume(resume(Flags)) = resume(Flags)

\* C36 as stated: pause(), resume() and cancel() change only their own flag
\* and leave the counter, the checkpoint mapping and the last-save time
\* alone; pause() and resume() are idempotent; pause() followed by resume()
\* gives back the flags that held before the pause.
C36_ControlCalls ==
  /\ [](ControlIdempotent /\ resume(pause(Flags)) = Flags)
  /\ [][ControlFrame]_vars

\* C36 amended: as above, and pause() followed by resume() leaves the pause
\* flag clear and the cancel flag as it was, which gives back the flags that
\* held before the pause when the controller was not paused already.
C36_ControlCallsAmended ==
  /\ [](/\ ControlIdempotent
        /\ resume(pause(Flags)) = [Flags EXCEPT !.pause = FALSE]
        /\ ~pause_set => resume(pause(Flags)) = Flags)
  /\ [][ControlFrame]_vars

\* C36 witness: pause() was called while a transfer was running with bytes
\* counted, a checkpoint entry written and cancel() called before.
C36_Witness ==
  /\ pause_set /\ cancel_set
  /\ downloaded > 0
  /\ \E i \in batch : state[i].has /\ pc[i] \in WaitPcs

\* C37: in download_simulated an iteration never lowers done and leaves it
\* within 0..total_bytes, done does not change while paused, a cancel typed
\* while paused ends the loop, and a loop that is not cancelled and not
\* paused forever ends as completed with done = total_bytes.
C37_ConsoleLoop ==
  /\ [][pc[1] = "v2s_loop" =>
          /\ done'[1] >= done[1]
          /\ done'[1] # done[1] => (0 <= done'[1] /\ done'[1] <= total_bytes)
          /\ pause_set => done'[1] = done[1]
          /\ (cancel_set' /\ pause_set) => pc'[1] = "v2s_end"]_vars
  /\ []((pc[1] \in {"v2s_end", "ret_true"} /\ ~cancel_set) => done[1] = total_bytes)
  /\ []((pc[1] = "v2s_loop" /\ []~cancel_set /\ <>[]~pause_set)
          => <>(pc[1] = "ret_true" /\ done[1] = total_bytes))

C39_RestoreOnlyAfterMatch ==
  [][(rst.owner /\ rst'.restored > rst.restored)
       => (rst.stored /\ rst'.last = "restored")]_vars

====
